---- MODULE Spec2Model ----
(***************************************************************************)
(* Animated WebP encoder (AWEBPEncoder): js/main.js carries version 0.2 of *)
(* the encoder together with the camera recorder, js/awebp.js carries      *)
(* version 0.1.  Buffers are sequences of bytes (0..255); a byte at the    *)
(* JavaScript offset o is element o + 1 of the sequence.                   *)
(***************************************************************************)
EXTENDS Integers, Sequences, FiniteSets, TLC

VARIABLES version, _width, _height, _fps, _blob, calls, delivered, lastOp

vars == <<version, _width, _height, _fps, _blob, calls, delivered, lastOp>>

(***************************************************************************)
(* Bounds of the model.                                                    *)
(***************************************************************************)
\* frames per createFromBlobs call
MaxFrames == 2
\* byte length of the longest frame buffer
MaxBufLen == 44
\* largest canvas dimension tried
MaxDim == 65537

(***************************************************************************)
(* Program constants.                                                      *)
(***************************************************************************)
VIDEO_FPS == 15
VIDEO_WIDTH == 480
VIDEO_HEIGHT == 360
MAGIC_VP8X == 1448097880
MAGIC_ICCP == 1229144912
\* the largest width and height whose minus-one setUint16 stores whole
MaxCanvas == 65536

\* the two encoder sources: "0.1" is js/awebp.js, "0.2" is js/main.js
Versions == {"0.1", "0.2"}

\* the createFromBlobs invocations that may be in progress on the instance
CallIds == {1, 2}

\* `undefined`: a Blob the encoder builds is never empty (44 bytes at least)
NoBlob == <<>>

(***************************************************************************)
(* Typed-array and DataView primitives.                                    *)
(***************************************************************************)
\* byte k of the two's complement representation of v (ToUint32/ToUint16)
ByteOf(v, k) == (v \div (256 ^ k)) % 256

setUint8(arr, pos, v) ==
  [i \in 1..Len(arr) |-> IF i - 1 = pos THEN ByteOf(v, 0) ELSE arr[i]]

\* DataView.setUint16(pos, v, true)
setUint16(arr, pos, v) ==
  [i \in 1..Len(arr) |->
     IF i - 1 >= pos /\ i - 1 < pos + 2 THEN ByteOf(v, i - 1 - pos) ELSE arr[i]]

\* DataView.setUint32(pos, v, true)
setUint32(arr, pos, v) ==
  [i \in 1..Len(arr) |->
     IF i - 1 >= pos /\ i - 1 < pos + 4 THEN ByteOf(v, i - 1 - pos) ELSE arr[i]]

\* DataView.getUint32 throws a RangeError unless the four bytes are in the view
canGetUint32(view, off) == off + 4 <= Len(view)

\* DataView.getUint32(off): big-endian
getUint32(view, off) ==
  view[off + 1] * 16777216 + view[off + 2] * 65536 + view[off + 3] * 256
    + view[off + 4]

\* DataView.getUint32(off, true): little-endian
getUint32LE(view, off) ==
  view[off + 1] + view[off + 2] * 256 + view[off + 3] * 65536
    + view[off + 4] * 16777216

\* ArrayBuffer.slice(begin): begin is clamped to the buffer's length
slice(buf, begin) ==
  SubSeq(buf, (IF begin > Len(buf) THEN Len(buf) ELSE begin) + 1, Len(buf))

_writeStr(arr, pos, str) ==
  [i \in 1..Len(arr) |->
     IF i - 1 >= pos /\ i - 1 < pos + Len(str) THEN str[i - pos] ELSE arr[i]]

RECURSIVE Concat(_)
\* new Blob(chunks): the chunks' bytes, in array order
Concat(chunks) ==
  IF chunks = <<>> THEN <<>> ELSE Head(chunks) \o Concat(Tail(chunks))

(***************************************************************************)
(* Fixed leading chunks.                                                   *)
(***************************************************************************)
\* RIFF....WEBP, the total size still a placeholder
header == <<82, 73, 70, 70, 0, 0, 0, 0, 87, 69, 66, 80>>

VP8XBytes == <<86, 80, 56, 88, 10, 0, 0, 0, 2, 0, 0, 0, 0, 0, 0, 0, 0, 0>>

\* faulty variant: the canvas size written as it is, not minus one
VP8XChunkNotMinusOne(w, h) == setUint16(setUint16(VP8XBytes, 12, w), 15, h)

VP8XChunk(w, h) == setUint16(setUint16(VP8XBytes, 12, w - 1), 15, h - 1)

ANIM == <<65, 78, 73, 77, 6, 0, 0, 0, 0, 0, 0, 0, 0, 0>>

(***************************************************************************)
(* Per-frame step (reader.onload).                                         *)
(***************************************************************************)
\* faulty variant: Math.round(1000/fps)
frameDurationRounded(fps) == (2000 + fps) \div (2 * fps)

\* the value setUint32 stores for 1000/fps: ToUint32 drops the fraction
frameDuration(fps) == 1000 \div fps

\* the 24 bytes of the ANMF chunk header; the 32-bit writes overlap, each
\* overwriting the top byte of the 24-bit field before it
ANMFChunk(payloadLen, w, h, fps) ==
  LET a0 == _writeStr([i \in 1..24 |-> 0], 0, <<65, 78, 77, 70>>)
      a1 == setUint32(a0, 4, 16 + payloadLen)
      a2 == setUint32(a1, 8, 0)
      a3 == setUint32(a2, 11, 0)
      a4 == setUint32(a3, 14, w - 1)
      a5 == setUint32(a4, 17, h - 1)
      a6 == setUint32(a5, 20, frameDuration(fps))
  IN  setUint8(a6, 23, 3)

\* faulty variant: the color profile's header is skipped, its payload is not
offsetImageProfileHeaderOnly(frame_view) ==
  IF ~canGetUint32(frame_view, 12) THEN -1
  ELSE IF getUint32(frame_view, 12) = MAGIC_VP8X
       THEN IF ~canGetUint32(frame_view, 30) THEN -1
            ELSE IF getUint32(frame_view, 30) = MAGIC_ICCP
                 THEN IF ~canGetUint32(frame_view, 34) THEN -1
                      ELSE 30 + 8
                 ELSE 30
       ELSE 12

\* version 0.2: the payload's offset in the frame, or -1 for the RangeError
\* a read outside the frame's DataView throws
offsetImage(frame_view) ==
  IF ~canGetUint32(frame_view, 12) THEN -1
  ELSE IF getUint32(frame_view, 12) = MAGIC_VP8X
       THEN IF ~canGetUint32(frame_view, 30) THEN -1
            ELSE IF getUint32(frame_view, 30) = MAGIC_ICCP
                 THEN IF ~canGetUint32(frame_view, 34) THEN -1
                      ELSE 30 + 8 + getUint32LE(frame_view, 34)
                 ELSE 30
       ELSE 12

\* version 0.1 strips the 12-byte RIFF header of every frame
offsetImageV01(result) == 12

offsetOf(ver, result) ==
  IF ver = "0.2" THEN offsetImage(result) ELSE offsetImageV01(result)

\* faulty variant: the container is built one frame early
hasNextFrameOffByOne(frame_num, frame_blobs) == frame_num + 1 < Len(frame_blobs)

\* the test that decides between reading frame_blobs[frame_num] and building
\* the container
hasNextFrame(frame_num, frame_blobs) == frame_num < Len(frame_blobs)

(***************************************************************************)
(* Frame buffers handed to createFromBlobs.                                *)
(***************************************************************************)
\* the chunk marker at offset 30 of an Extended frame
Marker30(kind) ==
  CASE kind = "iccp" -> <<73, 67, 67, 80>>
    [] kind = "anim" -> <<65, 78, 73, 77>>
    [] OTHER -> <<86, 80, 56, 32>>

\* a still-image file of len bytes: RIFF header, then "VP8 " (Simple) or
\* "VP8X" (the other kinds) at 12, the kind's marker at 30, the color
\* profile's length L at 34; every other byte is the frame's tag
FrameBytes(tag, kind, len, L) ==
  [i \in 1..len |->
     LET o == i - 1 IN
     IF o < 4 THEN <<82, 73, 70, 70>>[o + 1]
     ELSE IF o < 8 THEN ByteOf(len - 8, o - 4)
     ELSE IF o < 12 THEN <<87, 69, 66, 80>>[o - 7]
     ELSE IF o < 16 THEN (IF kind = "simple" THEN <<86, 80, 56, 32>>
                                             ELSE <<86, 80, 56, 88>>)[o - 11]
     ELSE IF kind # "simple" /\ o >= 30 /\ o < 34 THEN Marker30(kind)[o - 29]
     ELSE IF kind = "iccp" /\ o >= 34 /\ o < 38 THEN ByteOf(L, o - 34)
     ELSE tag]

WebP(tag, kind, len, L) ==
  [type |-> "image/webp", data |-> FrameBytes(tag, kind, len, L)]

\* frames of the encoder's life cycle: a Simple one, an Extended one whose
\* color profile claims more bytes than the buffer holds, and one that is
\* neither image/webp nor as long as a RIFF header
FrameA == WebP(101, "simple", 20, 0)
FrameB == WebP(102, "iccp", MaxBufLen, MaxBufLen - 36)
FrameS == [type |-> "image/png", data |-> FrameBytes(103, "simple", 8, 0)]
Pool == {FrameA, FrameB, FrameS}

\* frames of every layout, with buffers that end before and after each
\* offset the encoder reads, and color profiles that end before, at and
\* after the end of the buffer
RichPool ==
  { WebP(101, "simple", 8, 0), WebP(102, "simple", 14, 0),
    WebP(103, "simple", 20, 0), WebP(104, "simple", MaxBufLen, 0),
    WebP(105, "vp8", 32, 0), WebP(106, "vp8", MaxBufLen, 0),
    WebP(107, "iccp", 36, 0), WebP(108, "iccp", MaxBufLen, 0),
    WebP(109, "iccp", MaxBufLen, MaxBufLen - 38),
    WebP(110, "iccp", MaxBufLen, MaxBufLen - 36),
    WebP(111, "anim", MaxBufLen, 0) }

CanvasPool == {FrameA, WebP(104, "vp8", MaxBufLen, 0)}

Arrays(P) == UNION {[1..n -> P] : n \in 0..MaxFrames}
PoolArrays == Arrays(Pool)
RichArrays == Arrays(RichPool)
CanvasArrays == Arrays(CanvasPool)

Widths == {1, 4, VIDEO_WIDTH, MaxCanvas, MaxDim}
Heights == {1, VIDEO_HEIGHT, MaxCanvas, MaxDim}
FpsSet == {1, 3, 10, VIDEO_FPS, 24, 30, 60, 1000}

(***************************************************************************)
(* State.                                                                  *)
(***************************************************************************)
\* the locals of a createFromBlobs invocation that has not been made
Idle ==
  [status |-> "idle", frame_blobs |-> <<>>, chunks |-> <<>>, size |-> 0,
   frame_num |-> 0, reading |-> -1]

NoOp == [op |-> "none", thrown |-> "none", arg |-> 0, out |-> NoBlob]

\* new AWEBPEncoder(w, h, fps)
AWEBPEncoder(ver, w, h, fps) ==
  /\ version = ver
  /\ _width = w
  /\ _height = h
  /\ _fps = fps
  /\ _blob = NoBlob
  /\ calls = [c \in CallIds |-> Idle]
  /\ delivered = [c \in CallIds |-> NoBlob]
  /\ lastOp = NoOp

\* the recorder's encoder
InitMain == AWEBPEncoder("0.2", VIDEO_WIDTH, VIDEO_HEIGHT, VIDEO_FPS)

Init ==
  \E ver \in Versions : AWEBPEncoder(ver, VIDEO_WIDTH, VIDEO_HEIGHT, VIDEO_FPS)

InitCanvas ==
  \E ver \in Versions, w \in Widths, h \in Heights, fps \in FpsSet :
    AWEBPEncoder(ver, w, h, fps)

(***************************************************************************)
(* Operations.                                                             *)
(***************************************************************************)
\* faulty variant: no test of the array's length; frame_blobs[0].type of an empty
\* array is a TypeError
validateFirstBlobOnly(frame_blobs) ==
  IF Len(frame_blobs) = 0 THEN "TypeError"
  ELSE IF frame_blobs[1].type # "image/webp" THEN "Blob has wrong mimetype"
  ELSE "none"

\* the exception createFromBlobs throws before it does anything
validate(frame_blobs) ==
  IF Len(frame_blobs) = 0 THEN "Empty blob array"
  ELSE IF frame_blobs[1].type # "image/webp" THEN "Blob has wrong mimetype"
  ELSE "none"

\* faulty variant: the test is missing
noBlobUnchecked(b) == FALSE

\* the test `!this._blob` of saveAsFile and upload
noBlob(b) == b = NoBlob

\* the invocation a call that starts to read becomes: the least not yet made
NextCall ==
  IF \E c \in CallIds : calls[c].status = "idle"
  THEN CHOOSE c \in CallIds :
         /\ calls[c].status = "idle"
         /\ \A d \in CallIds : d < c => calls[d].status # "idle"
  ELSE 0

CreateFromBlobs(c, frame_blobs) ==
  /\ LET err == validate(frame_blobs) IN
     IF err # "none"
     THEN /\ lastOp' = [op |-> "createFromBlobs", thrown |-> err,
                        arg |-> Len(frame_blobs), out |-> NoBlob]
          /\ UNCHANGED calls
     ELSE /\ c \in CallIds
          /\ calls[c].status = "idle"
          /\ calls' = [calls EXCEPT ![c] =
                         [status |-> "reading", frame_blobs |-> frame_blobs,
                          chunks |-> <<header, VP8XChunk(_width, _height), ANIM>>,
                          size |-> 12 + 18 + 14, frame_num |-> 0,
                          reading |-> 0]]
          /\ lastOp' = [op |-> "createFromBlobs", thrown |-> "none",
                        arg |-> Len(frame_blobs), out |-> NoBlob]
  /\ UNCHANGED <<version, _width, _height, _fps, _blob, delivered>>

\* reader.onload of call c: the frame the reader was given has been read
OnLoad(c) ==
  /\ calls[c].status = "reading"
  /\ LET loc == calls[c]
         result == loc.frame_blobs[loc.reading + 1].data
         offset_image == offsetOf(version, result)
     IN
     IF offset_image = -1
     THEN /\ calls' = [calls EXCEPT ![c].status = "aborted"]
          /\ lastOp' = [op |-> "onload", thrown |-> "RangeError", arg |-> c,
                        out |-> NoBlob]
          /\ UNCHANGED <<_blob, delivered>>
     ELSE
       LET ANMF == ANMFChunk(Len(result) - offset_image, _width, _height, _fps)
           chunks == Append(Append(loc.chunks, ANMF),
                            slice(result, offset_image))
           size == loc.size + 24 + (Len(result) - offset_image)
           frame_num == loc.frame_num + 1
       IN
       IF hasNextFrame(frame_num, loc.frame_blobs)
       THEN /\ calls' = [calls EXCEPT ![c] =
                           [loc EXCEPT !.chunks = chunks, !.size = size,
                                       !.frame_num = frame_num,
                                       !.reading = frame_num]]
            /\ lastOp' = [op |-> "onload", thrown |-> "none", arg |-> c,
                          out |-> NoBlob]
            /\ UNCHANGED <<_blob, delivered>>
       ELSE
         LET final == [chunks EXCEPT ![1] = setUint32(chunks[1], 4, size - 8)]
             blob == Concat(final)
         IN
         /\ calls' = [calls EXCEPT ![c] =
                        [loc EXCEPT !.chunks = final, !.size = size,
                                    !.frame_num = frame_num, !.reading = -1,
                                    !.status = "done"]]
         /\ _blob' = blob
         /\ delivered' = [delivered EXCEPT ![c] = blob]
         /\ lastOp' = [op |-> "onload", thrown |-> "none", arg |-> c,
                       out |-> blob]
  /\ UNCHANGED <<version, _width, _height, _fps>>

\* canvas.toBlob's callback of the recorder: the array given to call c is the
\* recorder's own, and a frame still being encoded when the call was made is
\* pushed to it afterwards (a push after the call has ended changes nothing
\* the encoder reads)
ToBlobCallback(c, blob) ==
  /\ calls[c].status = "reading"
  /\ Len(calls[c].frame_blobs) < MaxFrames
  /\ calls' = [calls EXCEPT ![c].frame_blobs = Append(@, blob)]
  /\ lastOp' = [op |-> "toBlob", thrown |-> "none", arg |-> c, out |-> NoBlob]
  /\ UNCHANGED <<version, _width, _height, _fps, _blob, delivered>>

\* saveAsFile: out is the blob the download link points to
SaveAsFile ==
  /\ lastOp' = IF noBlob(_blob)
               THEN [op |-> "saveAsFile", thrown |-> "No blob was generated",
                     arg |-> 0, out |-> NoBlob]
               ELSE [op |-> "saveAsFile", thrown |-> "none", arg |-> 0,
                     out |-> _blob]
  /\ UNCHANGED <<version, _width, _height, _fps, _blob, calls, delivered>>

\* upload: out is the blob appended to the form data that is sent
Upload ==
  /\ lastOp' = IF noBlob(_blob)
               THEN [op |-> "upload", thrown |-> "No blob was generated",
                     arg |-> 0, out |-> NoBlob]
               ELSE [op |-> "upload", thrown |-> "none", arg |-> 0,
                     out |-> _blob]
  /\ UNCHANGED <<version, _width, _height, _fps, _blob, calls, delivered>>

\* the arrays createFromBlobs throws for, and those it starts to read
Rejected(arrays) == {fb \in arrays : validate(fb) # "none"}
Accepted(arrays) == {fb \in arrays : validate(fb) = "none"}
PoolRejected == Rejected(PoolArrays)
PoolAccepted == Accepted(PoolArrays)
RichRejected == Rejected(RichArrays)
RichAccepted == Accepted(RichArrays)
CanvasRejected == Rejected(CanvasArrays)
CanvasAccepted == Accepted(CanvasArrays)

\* the encoder of main.js, two createFromBlobs calls whose reads interleave
Next ==
  \/ \E fb \in PoolRejected : CreateFromBlobs(NextCall, fb)
  \/ NextCall # 0 /\ \E fb \in PoolAccepted : CreateFromBlobs(NextCall, fb)
  \/ \E c \in CallIds : OnLoad(c)
  \/ \E c \in CallIds, blob \in Pool : ToBlobCallback(c, blob)
  \/ SaveAsFile
  \/ Upload

Spec == InitMain /\ [][Next]_vars

\* either encoder, one call, frames of every layout and length
NextFrames ==
  \/ \E fb \in RichRejected : CreateFromBlobs(1, fb)
  \/ calls[1].status = "idle" /\ \E fb \in RichAccepted : CreateFromBlobs(1, fb)
  \/ OnLoad(1)
  \/ SaveAsFile
  \/ Upload

SpecFrames == Init /\ [][NextFrames]_vars

\* either encoder, one call, every canvas size and frame rate
NextCanvas ==
  \/ \E fb \in CanvasRejected : CreateFromBlobs(1, fb)
  \/ calls[1].status = "idle" /\ \E fb \in CanvasAccepted : CreateFromBlobs(1, fb)
  \/ OnLoad(1)
  \/ SaveAsFile
  \/ Upload

SpecCanvas == InitCanvas /\ [][NextCanvas]_vars

(***************************************************************************)
(* Vocabulary of the properties.                                           *)
(***************************************************************************)
\* v as n little-endian bytes
LE(v, n) == [k \in 1..n |-> ByteOf(v, k - 1)]

\* the n bytes at offset off
Field(buf, off, n) == SubSeq(buf, off + 1, off + n)

Frame(c, i) == calls[c].frame_blobs[i].data
\* the i-th per-frame wrapper (ANMF header) of call c and the bytes after it
Wrapper(c, i) == calls[c].chunks[2 + 2 * i]
Payload(c, i) == calls[c].chunks[3 + 2 * i]

RECURSIVE SumLen(_)
SumLen(chunks) ==
  IF chunks = <<>> THEN 0 ELSE Len(Head(chunks)) + SumLen(Tail(chunks))

MarkerAt(buf, off, m) == Len(buf) >= off + 4 /\ Field(buf, off, 4) = m

ByteAt(buf, off) == IF off < Len(buf) THEN buf[off + 1] ELSE 0

\* the payload offset as the extraction rule states it
ClaimedOffset(f) ==
  IF ~MarkerAt(f, 12, <<86, 80, 56, 88>>) THEN 12
  ELSE IF ~MarkerAt(f, 30, <<73, 67, 67, 80>>) THEN 30
  ELSE 30 + 8 + ByteAt(f, 34) + 256 * ByteAt(f, 35) + 65536 * ByteAt(f, 36)
         + 16777216 * ByteAt(f, 37)

\* the wrapper of frame i declares, and is followed by, the bytes of the
\* frame from offset off on
UsesOffset(c, i, off) ==
  LET f == Frame(c, i) IN
  /\ Field(Wrapper(c, i), 4, 4) = LE(16 + Len(f) - off, 4)
  /\ Payload(c, i) = SubSeq(f, (IF off > Len(f) THEN Len(f) ELSE off) + 1, Len(f))

IsSuffix(p, f) ==
  Len(p) <= Len(f) /\ p = SubSeq(f, Len(f) - Len(p) + 1, Len(f))

Completed == \E c \in CallIds : calls[c].status = "done"

(***************************************************************************)
(* C1: the total-size field of every container handed to the callback is   *)
(* the container's length minus 8, and after every frame step the size     *)
(* counter is the summed length of the chunks pushed so far, whatever the  *)
(* frames' payload offsets.  (Stated for the encoder of main.js.)          *)
(***************************************************************************)
C1_TotalSizeIsLength ==
  \A c \in CallIds :
    version = "0.2" =>
      /\ calls[c].status # "idle" => calls[c].size = SumLen(calls[c].chunks)
      /\ delivered[c] # NoBlob =>
           Field(delivered[c], 4, 4) = LE(Len(delivered[c]) - 8, 4)

C3_FramesInOrder ==
  \A c \in CallIds :
    LET loc == calls[c] IN
    /\ loc.status = "reading" =>
         /\ loc.reading = loc.frame_num
         /\ loc.frame_num < Len(loc.frame_blobs)
         /\ delivered[c] = NoBlob
    /\ loc.status # "idle" =>
         /\ Len(loc.chunks) = 3 + 2 * loc.frame_num
         /\ loc.frame_num <= Len(loc.frame_blobs)
         /\ \A i \in 1..loc.frame_num :
              /\ Field(Wrapper(c, i), 0, 4) = <<65, 78, 77, 70>>
              /\ IsSuffix(Payload(c, i), Frame(c, i))
              /\ Field(Wrapper(c, i), 4, 4)
                   = LE(16 + Len(Frame(c, i)) - offsetOf(version, Frame(c, i)), 4)
    /\ delivered[c] # NoBlob =>
         /\ loc.status = "done"
         /\ loc.frame_num = Len(loc.frame_blobs)
         /\ Field(loc.chunks[1], 0, 4) = <<82, 73, 70, 70>>
         /\ Field(loc.chunks[2], 0, 4) = <<86, 80, 56, 88>>
         /\ Field(loc.chunks[3], 0, 4) = <<65, 78, 73, 77>>
         /\ delivered[c] = Concat(loc.chunks)

\* a container of two different frames has been delivered
C3_Witness ==
  \E c \in CallIds :
    /\ delivered[c] # NoBlob
    /\ Len(calls[c].frame_blobs) = 2
    /\ Payload(c, 1) # Payload(c, 2)
    /\ Payload(c, 1) # <<>>

(***************************************************************************)
(* C4: the 3-byte duration field of every wrapper is round(1000 / fps).    *)
(***************************************************************************)
C4_DurationRounded ==
  \A c \in CallIds : \A i \in 1..calls[c].frame_num :
    Field(Wrapper(c, i), 20, 3) = LE((2000 + _fps) \div (2 * _fps), 3)

\* C4 as amended: the field is 1000 / fps with the fraction dropped, the same
\* in every wrapper, and the byte after it is the flags byte 3
C4_DurationTruncated ==
  \A c \in CallIds : \A i \in 1..calls[c].frame_num :
    /\ Field(Wrapper(c, i), 20, 3) = LE(1000 \div _fps, 3)
    /\ Field(Wrapper(c, i), 23, 1) = <<3>>

\* two frames were appended at a rate whose frame time is no whole number
C4_Witness ==
  /\ delivered[1] # NoBlob
  /\ calls[1].frame_num = 2
  /\ 1000 % _fps # 0
  /\ (2000 + _fps) \div (2 * _fps) # 1000 \div _fps

(***************************************************************************)
(* C5: createFromBlobs of an empty array throws 'Empty blob array' and     *)
(* changes nothing: no call state, no container handed to a callback, and  *)
(* _blob as it was.                                                        *)
(***************************************************************************)
C5_EmptyArrayThrows ==
  [][(lastOp'.op = "createFromBlobs" /\ lastOp'.arg = 0) =>
       /\ lastOp'.thrown = "Empty blob array"
       /\ lastOp'.out = NoBlob
       /\ _blob' = _blob
       /\ calls' = calls
       /\ delivered' = delivered]_vars

\* an empty array was given to an encoder that holds a container
C5_Witness ==
  /\ lastOp.op = "createFromBlobs"
  /\ lastOp.arg = 0
  /\ _blob # NoBlob
  /\ delivered[1] = _blob

(***************************************************************************)
(* C6: saveAsFile and upload throw 'No blob was generated', and hand no    *)
(* blob on, exactly when no createFromBlobs call of the instance has       *)
(* completed; otherwise they hand on the stored container.                 *)
(***************************************************************************)
C6_NoBlobBeforeFirstCompletion ==
  lastOp.op \in {"saveAsFile", "upload"} =>
    IF Completed
    THEN lastOp.thrown = "none" /\ lastOp.out = _blob /\ lastOp.out # NoBlob
    ELSE lastOp.thrown = "No blob was generated" /\ lastOp.out = NoBlob

\* saveAsFile threw while one assembly had failed in its onload and another
\* was still reading frames
C6_Witness ==
  /\ lastOp.op = "saveAsFile"
  /\ lastOp.thrown = "No blob was generated"
  /\ \E c \in CallIds : calls[c].status = "aborted"
  /\ \E c \in CallIds : calls[c].status = "reading" /\ calls[c].frame_num >= 1

(***************************************************************************)
(* C7: no wrapper is emitted, and so no container delivered, for an        *)
(* Extended frame whose marker at offset 30 is neither the color-profile   *)
(* marker nor an image payload marker (VP8, VP8L, ALPH).  (Stated for the  *)
(* encoder of main.js.)                                                    *)
(***************************************************************************)
Unrecognized(f) ==
  /\ MarkerAt(f, 12, <<86, 80, 56, 88>>)
  /\ Len(f) >= 34
  /\ Field(f, 30, 4) \notin {<<73, 67, 67, 80>>, <<86, 80, 56, 32>>,
                             <<86, 80, 56, 76>>, <<65, 76, 80, 72>>}

C7_UnknownChunkRejected ==
  version = "0.2" =>
    \A c \in CallIds : \A i \in 1..calls[c].frame_num :
      ~Unrecognized(Frame(c, i))

(***************************************************************************)
(* C8: no wrapper is emitted for a frame whose payload offset is at or     *)
(* beyond the end of its buffer, and no wrapper has a payload-size field   *)
(* of 16 or less.  (Stated for the encoder of main.js.)                    *)
(***************************************************************************)
C8_EmptyPayloadRejected ==
  version = "0.2" =>
    \A c \in CallIds : \A i \in 1..calls[c].frame_num :
      /\ ClaimedOffset(Frame(c, i)) < Len(Frame(c, i))
      /\ \A k \in 0..16 : Field(Wrapper(c, i), 4, 4) # LE(k, 4)

(***************************************************************************)
(* C9: when a call's container is handed to its callback while the other   *)
(* call is still reading frames, the container is the leading chunks       *)
(* followed by that call's own frames in their order, and its total-size   *)
(* field is its own length minus 8.  (Stated for the encoder of main.js.)  *)
(***************************************************************************)
RECURSIVE OwnFrames(_, _, _, _, _)
\* the wrappers and payloads of the frames alone, in array order
OwnFrames(ver, frame_blobs, w, h, fps) ==
  IF frame_blobs = <<>> THEN <<>>
  ELSE LET f == Head(frame_blobs).data
           off == offsetOf(ver, f)
       IN  ANMFChunk(Len(f) - off, w, h, fps) \o slice(f, off)
             \o OwnFrames(ver, Tail(frame_blobs), w, h, fps)

RECURSIVE OwnSize(_, _)
\* the bytes a call's size counter adds for the frames alone
OwnSize(ver, frame_blobs) ==
  IF frame_blobs = <<>> THEN 0
  ELSE 24 + Len(Head(frame_blobs).data)
         - offsetOf(ver, Head(frame_blobs).data)
         + OwnSize(ver, Tail(frame_blobs))

\* everything but the total-size field is made of call c's frames alone
OwnContainer(c) ==
  /\ Len(delivered[c]) >= 44
  /\ Field(delivered[c], 0, 4) = <<82, 73, 70, 70>>
  /\ SubSeq(delivered[c], 9, Len(delivered[c]))
       = <<87, 69, 66, 80>> \o VP8XChunk(_width, _height) \o ANIM
           \o OwnFrames(version, calls[c].frame_blobs, _width, _height, _fps)

C9_ConcurrentCallsOwnContainer ==
  version = "0.2" =>
    \A c, d \in CallIds :
      ( /\ c # d
        /\ lastOp.op = "onload" /\ lastOp.arg = c /\ lastOp.out # NoBlob
        /\ calls[d].status = "reading" /\ calls[d].frame_num >= 1 ) =>
          /\ delivered[c] = lastOp.out
          /\ OwnContainer(c)
          /\ Field(delivered[c], 4, 4) = LE(Len(delivered[c]) - 8, 4)

\* the part of C9 that is about sharing: whichever way the reads interleave,
\* a container handed to a callback is made of its own call's frames, and its
\* total-size field is the call's own size counter minus 8
CallsShareNothing ==
  \A c \in CallIds :
    delivered[c] # NoBlob =>
      /\ OwnContainer(c)
      /\ Field(delivered[c], 4, 4) = LE(calls[c].size - 8, 4)
      /\ calls[c].size = 44 + OwnSize(version, calls[c].frame_blobs)

(***************************************************************************)
(* C10: the canvas descriptor's 3-byte width and height fields (container  *)
(* bytes 24..26 and 27..29) are width - 1 and height - 1, and every        *)
(* wrapper's width and height fields equal them.                           *)
(***************************************************************************)
WidthFieldsExact(c) ==
  /\ Field(calls[c].chunks[2], 12, 3) = LE(_width - 1, 3)
  /\ \A i \in 1..calls[c].frame_num :
       Field(Wrapper(c, i), 14, 3) = Field(calls[c].chunks[2], 12, 3)
  /\ delivered[c] # NoBlob => Field(delivered[c], 24, 3) = LE(_width - 1, 3)

HeightFieldsExact(c) ==
  /\ Field(calls[c].chunks[2], 15, 3) = LE(_height - 1, 3)
  /\ \A i \in 1..calls[c].frame_num :
       Field(Wrapper(c, i), 17, 3) = Field(calls[c].chunks[2], 15, 3)
  /\ delivered[c] # NoBlob => Field(delivered[c], 27, 3) = LE(_height - 1, 3)

C10_CanvasFieldsExact ==
  \A c \in CallIds :
    calls[c].status # "idle" => WidthFieldsExact(c) /\ HeightFieldsExact(c)

\* C10 as amended: for a width of 1..65536 and for a height of 1..65536
C10_CanvasFieldsUpToMaxCanvas ==
  \A c \in CallIds :
    calls[c].status # "idle" =>
      /\ (1 <= _width /\ _width <= MaxCanvas) => WidthFieldsExact(c)
      /\ (1 <= _height /\ _height <= MaxCanvas) => HeightFieldsExact(c)

\* a container of two frames was delivered for the largest such canvas
C10_Witness ==
  /\ _width = MaxCanvas
  /\ _height = MaxCanvas
  /\ delivered[1] # NoBlob
  /\ calls[1].frame_num = 2

====
